---- MODULE Spec2Model ----
(***************************************************************************)
(* Jinteia Loot Analyzer: the log line parser, the sliding event window,   *)
(* the statistics snapshot, the tailing worker thread and the monitor      *)
(* session that starts and stops it (src/Jinteia-Loot-Analyzer-FREE.py).   *)
(*                                                                         *)
(* Timestamps are whole seconds counted from 2000-01-01 00:00:00 (the log  *)
(* has second resolution and the code only orders and subtracts them).     *)
(* A text line is a sequence of one-character strings.                     *)
(***************************************************************************)
EXTENDS Integers, Sequences, FiniteSets, TLC

VARIABLES
    file,           \* the log file: the sequence of lines written to it so far
    now,            \* the clock read by time.time(), in seconds
    pc,             \* per worker: where its thread is in LiveMonitorWorker.run
    cfg,            \* per worker: window_minutes, refresh_secs, from_start
    fopen,          \* per worker: run holds an open file handle f
    pos,            \* per worker: number of lines of the file already read through f
    last_print,     \* per worker: run's local last_print
    window,         \* per worker: LiveMonitorWorker.window, a sequence of LootEvent
    stats,          \* per worker: what a direct call of compute_stats_from_window returned
    stop_set,       \* per threading.Event created by the application: is it set
    worker,         \* LootMonitorApp.worker (NoWorker for None)
    stop_event,     \* LootMonitorApp.stop_event: which Event it refers to
    created,        \* number of LiveMonitorWorker objects created so far
    ui_queue,       \* Tk's queue of after(0, update_stats, stats) callbacks
    ui,             \* what the statistics labels and the item tree display
    notice,         \* the last message box shown
    main_pc,        \* the main thread: "idle" in the event loop, or "join" in worker.join
    join_start,     \* the clock when worker.join(timeout=1.0) was entered
    appended,       \* history, per worker: every event handed to add_event
    hist            \* history, per worker: counts of what its thread has done

vars == <<file, now, pc, cfg, fopen, pos, last_print, window, stats, stop_set, worker,
          stop_event, created, ui_queue, ui, notice, main_pc, join_start, appended, hist>>

----------------------------------------------------------------------------
(* Bounds of the model *)

MaxWorkers == 2
MaxLines == 1
MaxClock == 1
MaxAppends == 4
MaxWindow == 3
MaxSessionLines == 2
MaxSessionClock == 2
MaxComputes == 2

Workers == 1..MaxWorkers

\* Python's None
None == [none |-> TRUE]

\* mutant: one second is added instead of taking the larger
MaxPlus(a, b) == a + b

Max(a, b) == IF a >= b THEN a ELSE b

\* All sequences over S of length lo..hi
SeqsUpTo(S, lo, hi) == UNION {[1..n -> S] : n \in lo..hi}

----------------------------------------------------------------------------
(* LootEvent *)

LootEvent(ts, quantity, item) == [ts |-> ts, quantity |-> quantity, item |-> item]

\* item names are text, i.e. sequences of characters
Yang == <<"Y", "a", "n", "g">>

is_yang(ev) == ev.item = Yang

----------------------------------------------------------------------------
(* LOG_LINE_RE, parse_datetime_from_log, parse_log_line *)

\* a raised ValueError
ValueError == [raise |-> "ValueError"]

Digit == {"0", "1", "2", "3", "4", "5", "6", "7", "8", "9"}

DigitValue(c) ==
    CASE c = "0" -> 0 [] c = "1" -> 1 [] c = "2" -> 2 [] c = "3" -> 3 [] c = "4" -> 4
      [] c = "5" -> 5 [] c = "6" -> 6 [] c = "7" -> 7 [] c = "8" -> 8 [] c = "9" -> 9

\* int(qty_str) on a string of digits
RECURSIVE int(_)
int(str) ==
    IF str = <<>> THEN 0
    ELSE 10 * int(SubSeq(str, 1, Len(str) - 1)) + DigitValue(str[Len(str)])

\* the fixed-width head of LOG_LINE_RE; D stands for \d
D == "\\d"
HeadPattern ==
    <<"[", D, D, "/", D, D, "/", D, D, "]", " ",
      "[", D, D, ":", D, D, ":", D, D, "]", ":", " ",
      "Y", "o", "u", " ", "r", "e", "c", "e", "i", "v", "e", " ">>

MatchHead(line, i) ==
    /\ i + Len(HeadPattern) - 1 <= Len(line)
    /\ \A k \in 1..Len(HeadPattern) :
          IF HeadPattern[k] = D THEN line[i + k - 1] \in Digit
          ELSE line[i + k - 1] = HeadPattern[k]

\* (\d+) is greedy: the last index of the run of digits that starts at j (j - 1 if none)
RECURSIVE DigitRunEnd(_, _)
DigitRunEnd(line, j) ==
    IF j <= Len(line) /\ line[j] \in Digit THEN DigitRunEnd(line, j + 1) ELSE j - 1

\* (.+?)\. is lazy: the first period at or after p, 0 if the line (or a newline,
\* which . does not match) comes first
RECURSIVE FirstPeriod(_, _)
FirstPeriod(line, p) ==
    IF p > Len(line) THEN 0
    ELSE IF line[p] = "." THEN p
    ELSE IF line[p] = "\n" THEN 0
    ELSE FirstPeriod(line, p + 1)

\* the groups of a match of LOG_LINE_RE that starts at index i, or None
MatchAt(line, i) ==
    IF ~MatchHead(line, i) THEN None
    ELSE
      LET q == i + Len(HeadPattern)
          e == DigitRunEnd(line, q)
          s == e + 2
          p == FirstPeriod(line, s + 1)
      IN  IF /\ e >= q
             /\ s <= Len(line)
             /\ line[e + 1] = " "
             /\ line[s] # "\n"
             /\ p # 0
          THEN [date_str |-> SubSeq(line, i + 1, i + 8),
                time_str |-> SubSeq(line, i + 12, i + 19),
                qty_str |-> SubSeq(line, q, e),
                item |-> SubSeq(line, s, p - 1)]
          ELSE None

\* LOG_LINE_RE.search(line): the leftmost match
RECURSIVE SearchFrom(_, _)
SearchFrom(line, i) ==
    IF i > Len(line) THEN None
    ELSE IF MatchAt(line, i) # None THEN MatchAt(line, i)
    ELSE SearchFrom(line, i + 1)

search(line) == SearchFrom(line, 1)

\* two digits at index k
TwoDigits(str, k) == 10 * DigitValue(str[k]) + DigitValue(str[k + 1])

IsLeap(year) == year % 4 = 0 /\ (year % 100 # 0 \/ year % 400 = 0)

DaysInMonth(year, month) ==
    IF month = 2 THEN (IF IsLeap(year) THEN 29 ELSE 28)
    ELSE IF month \in {4, 6, 9, 11} THEN 30 ELSE 31

RECURSIVE DaysBeforeMonth(_, _)
DaysBeforeMonth(year, month) ==
    IF month = 1 THEN 0
    ELSE DaysBeforeMonth(year, month - 1) + DaysInMonth(year, month - 1)

\* days from 0001-01-01 to the first day of year
DaysBeforeYear(year) ==
    LET y == year - 1 IN 365 * y + y \div 4 - y \div 100 + y \div 400

\* seconds from 2000-01-01 00:00:00 to the given date and time
Timestamp(year, month, day, hour, minute, second) ==
    (DaysBeforeYear(year) - DaysBeforeYear(2000) + DaysBeforeMonth(year, month) + day - 1)
        * 86400 + hour * 3600 + minute * 60 + second

\* dt.datetime.strptime(f"{date_str} {time_str}", "%d/%m/%y %H:%M:%S") on the
\* two-digit groups that LOG_LINE_RE hands over: [value |-> timestamp], or ValueError
\* when a group is out of range (%y: 00..68 is 20yy, 69..99 is 19yy)
parse_datetime_from_log(date_str, time_str) ==
    LET day == TwoDigits(date_str, 1)
        month == TwoDigits(date_str, 4)
        yy == TwoDigits(date_str, 7)
        year == IF yy <= 68 THEN 2000 + yy ELSE 1900 + yy
        hour == TwoDigits(time_str, 1)
        minute == TwoDigits(time_str, 4)
        second == TwoDigits(time_str, 7)
    IN  IF /\ month \in 1..12
           /\ day \in 1..31
           /\ day <= DaysInMonth(year, month)
           /\ hour \in 0..23
           /\ minute \in 0..59
           /\ second \in 0..59
        THEN [value |-> Timestamp(year, month, day, hour, minute, second)]
        ELSE ValueError

\* a LootEvent, None when the line does not match, ValueError when strptime raises
parse_log_line(line) ==
    LET m == search(line)
    IN  IF m = None THEN None
        ELSE LET ts == parse_datetime_from_log(m.date_str, m.time_str)
             IN  IF ts = ValueError THEN ValueError
                 ELSE LootEvent(ts.value, int(m.qty_str), m.item)

----------------------------------------------------------------------------
(* LiveMonitorWorker.add_event *)

\* mutant: an if in place of the while, at most one event is dropped
PopOnce(win, cutoff) ==
    IF win # <<>> /\ Head(win).ts < cutoff THEN Tail(win) ELSE win

\* mutant: a stale head empties the deque
PopThrough(win, cutoff) ==
    IF win # <<>> /\ Head(win).ts < cutoff THEN <<>> ELSE win

\* while self.window and self.window[0].ts < cutoff: self.window.popleft()
RECURSIVE PopStale(_, _)
PopStale(win, cutoff) ==
    IF win # <<>> /\ Head(win).ts < cutoff
    THEN PopStale(Tail(win), cutoff)
    ELSE win

\* mutant: the event at the cutoff is dropped too
RECURSIVE PopStaleOrEqual(_, _)
PopStaleOrEqual(win, cutoff) ==
    IF win # <<>> /\ Head(win).ts <= cutoff
    THEN PopStaleOrEqual(Tail(win), cutoff)
    ELSE win

add_event_le(win, ev, window_minutes) ==
    PopStaleOrEqual(Append(win, ev), ev.ts - 60 * window_minutes)

\* the window after add_event(ev) on a worker configured with window_minutes
add_event(win, ev, window_minutes) ==
    PopStale(Append(win, ev), ev.ts - 60 * window_minutes)

----------------------------------------------------------------------------
(* LiveMonitorWorker.compute_stats_from_window *)

\* sum(ev.quantity for ev in events_list if ev.is_yang)
RECURSIVE SumYang(_)
SumYang(events_list) ==
    IF events_list = <<>> THEN 0
    ELSE (IF is_yang(Head(events_list)) THEN Head(events_list).quantity ELSE 0)
         + SumYang(Tail(events_list))

\* a dict is a sequence of <<key, value>> pairs in insertion order
DictHas(d, key) == \E i \in 1..Len(d) : d[i][1] = key

\* mutant: = in place of +=
DictSet(d, key, qty) ==
    IF DictHas(d, key)
    THEN [i \in 1..Len(d) |-> IF d[i][1] = key THEN <<key, qty>> ELSE d[i]]
    ELSE Append(d, <<key, qty>>)

\* d[key] += qty on a defaultdict(int): a new key goes last, an old key keeps its place
DictAdd(d, key, qty) ==
    IF DictHas(d, key)
    THEN [i \in 1..Len(d) |-> IF d[i][1] = key THEN <<key, d[i][2] + qty>> ELSE d[i]]
    ELSE Append(d, <<key, qty>>)

\* for ev in events_list: if not ev.is_yang: items_qty[ev.item] += ev.quantity
RECURSIVE ItemsQty(_, _)
ItemsQty(events_list, items_qty) ==
    IF events_list = <<>> THEN items_qty
    ELSE ItemsQty(Tail(events_list),
                  IF is_yang(Head(events_list)) THEN items_qty
                  ELSE DictAdd(items_qty, Head(events_list).item, Head(events_list).quantity))

\* The float elapsed / 3600.0 (or / 60.0) is kept as the exact fraction num / den
Fraction(num, den) == [num |-> num, den |-> den]

\* mutant: int(qty / f), which truncates
TruncDiv(qty, f) == (qty * f.den) \div f.num

\* int(round(qty / f)) for qty >= 0: Python's round goes to the nearest integer and
\* takes the even one on a tie.  The double arithmetic of the code gives this value
\* whenever qty / f is no tie, and on a tie when f is exact in binary (as 0.5 h is).
RoundDiv(qty, f) ==
    LET n == qty * f.den
        d == f.num
        q == n \div d
        r == n % d
    IN  IF 2 * r > d \/ (2 * r = d /\ q % 2 = 1) THEN q + 1 ELSE q

\* mutant: x goes before the elements of equal quantity, which reverses ties
RECURSIVE InsertDescUnstable(_, _)
InsertDescUnstable(sorted, x) ==
    IF sorted = <<>> THEN <<x>>
    ELSE IF Head(sorted)[2] > x[2]
         THEN <<Head(sorted)>> \o InsertDescUnstable(Tail(sorted), x)
         ELSE <<x>> \o sorted

\* x goes after every element whose quantity is >= its own: a stable descending sort
RECURSIVE InsertDesc(_, _)
InsertDesc(sorted, x) ==
    IF sorted = <<>> THEN <<x>>
    ELSE IF Head(sorted)[2] >= x[2]
         THEN <<Head(sorted)>> \o InsertDesc(Tail(sorted), x)
         ELSE <<x>> \o sorted

\* items_list.sort(key=lambda x: x[1], reverse=True)
RECURSIVE SortByQtyDesc(_, _)
SortByQtyDesc(items_list, sorted) ==
    IF items_list = <<>> THEN sorted
    ELSE SortByQtyDesc(Tail(items_list), InsertDesc(sorted, Head(items_list)))

\* mutant: the check for an empty window is missing, a snapshot of nothing is made
compute_stats_of_nothing(win) ==
    [start |-> 0, end |-> 0, hours |-> Fraction(1, 3600), minutes |-> Fraction(1, 60),
     total_yang |-> 0, yang_per_hour |-> 0, yang_per_minute |-> 0, items |-> <<>>]

compute_stats_from_window(win) ==
    IF win = <<>> THEN None
    ELSE
      LET events_list == win
          total_yang == SumYang(events_list)
          items_qty == ItemsQty(events_list, <<>>)
          start == events_list[1].ts
          end == events_list[Len(events_list)].ts
          elapsed == Max(end - start, 1)
          hours == Fraction(elapsed, 3600)
          minutes == Fraction(elapsed, 60)
          items_list == [i \in 1..Len(items_qty) |->
                            <<items_qty[i][1], items_qty[i][2],
                              RoundDiv(items_qty[i][2], hours)>>]
      IN  [start |-> start,
           end |-> end,
           hours |-> hours,
           minutes |-> minutes,
           total_yang |-> total_yang,
           yang_per_hour |-> RoundDiv(total_yang, hours),
           yang_per_minute |-> RoundDiv(total_yang, minutes),
           items |-> SortByQtyDesc(items_list, <<>>)]

----------------------------------------------------------------------------
(* The state after LootMonitorApp.__init__ *)

NoWorker == 0

\* the stats dict run hands over when open fails
ErrorStats == [error |-> "Cannot open log file"]

\* the display after reset_stats_ui
ResetUi == [reset |-> TRUE]

\* the Spinbox and Checkbutton values start_monitor reads
WindowMinutesChoices == {5}
RefreshSecsChoices == {1}

Config(window_minutes, refresh_secs, from_start) ==
    [window_minutes |-> window_minutes, refresh_secs |-> refresh_secs,
     from_start |-> from_start]

Configs ==
    {Config(wm, rs, fs) : wm \in WindowMinutesChoices, rs \in RefreshSecsChoices,
                          fs \in BOOLEAN}

NotCalled == [not_called |-> TRUE]

\* open_len: the number of lines in the file when the thread opened it; parsed:
\* the lines, by their place in the file, handed to parse_log_line, in order;
\* entered: the clock reading at which the thread set last_print before its loop;
\* emitted: the snapshots the thread has handed to update_callback, each with the
\* clock reading at which it was handed over; delivered: how many of them
\* update_stats has shown; fault: the exception that ended the thread; result:
\* what parse_log_line returned when called on its own; computes: the calls of compute_stats_from_window made
\* on the worker while its thread is not started
NoHist ==
    [read |-> FALSE, open_failed |-> FALSE, errors |-> 0, snaps |-> 0,
     reads_after_stop |-> 0, snaps_after_stop |-> 0,
     open_len |-> 0, parsed |-> <<>>,
     entered |-> 0, emitted |-> <<>>, delivered |-> 0, fault |-> "none",
     result |-> NotCalled, computes |-> 0]

\* the thread of worker w has been started and has not ended
Alive(w) == w \in Workers /\ pc[w] \notin {"Unborn", "New", "Stopped", "Crashed"}

Init ==
    /\ file = <<>>
    /\ now = 0
    /\ pc = [w \in Workers |-> "Unborn"]
    /\ cfg = [w \in Workers |-> Config(60, 1, FALSE)]
    /\ fopen = [w \in Workers |-> FALSE]
    /\ pos = [w \in Workers |-> 0]
    /\ last_print = [w \in Workers |-> 0]
    /\ window = [w \in Workers |-> <<>>]
    /\ stats = [w \in Workers |-> None]
    /\ stop_set = [e \in 0..MaxWorkers |-> FALSE]
    /\ worker = NoWorker
    /\ stop_event = 0
    /\ created = 0
    /\ ui_queue = <<>>
    /\ ui = ResetUi
    /\ notice = "none"
    /\ main_pc = "idle"
    /\ join_start = 0
    /\ appended = [w \in Workers |-> <<>>]
    /\ hist = [w \in Workers |-> NoHist]

appVars == <<worker, stop_event, created, ui, notice, main_pc, join_start, stop_set>>
workerVars == <<pc, cfg, fopen, pos, last_print, window, stats, appended, hist>>

----------------------------------------------------------------------------
(* The environment: the clock, and the game client appending to the log *)

JoinTimeoutSecs == 1

\* date and time groups, and the lines the game client writes
Group(d1, d2, sep, d3, d4, d5, d6) == <<d1, d2, sep, d3, d4, sep, d5, d6>>

TextLine(date_str, time_str, qty_str, item) ==
    <<"[">> \o date_str \o <<"]", " ", "[">> \o time_str \o <<"]", ":", " ">>
    \o <<"Y", "o", "u", " ", "r", "e", "c", "e", "i", "v", "e", " ">>
    \o qty_str \o <<" ">> \o item \o <<".">>

IronOre == <<"I", "r", "o", "n", " ", "O", "r", "e">>

Date241125 == Group("2", "4", "/", "1", "1", "2", "5")

LinePool ==
    { TextLine(Date241125, Group("1", "0", ":", "0", "0", "0", "0"), <<"5">>, Yang),
      TextLine(Date241125, Group("1", "0", ":", "0", "6", "0", "0"), <<"1", "0", "0">>, IronOre),
      TextLine(Group("9", "9", "/", "9", "9", "9", "9"),
               Group("9", "9", ":", "9", "9", "9", "9"), <<"1">>, Yang),
      <<"h", "i">> }

\* a second passes, on a clock that is read up to max
TickUpTo(max) ==
    /\ now < max
    /\ now' = now + 1
    /\ UNCHANGED <<file, ui_queue>>
    /\ UNCHANGED appVars
    /\ UNCHANGED workerVars

Tick == TickUpTo(MaxClock)

\* the game client appends a whole line to a log of fewer than max lines
AppendLineUpTo(max) ==
    /\ Len(file) < max
    /\ \E line \in LinePool : file' = Append(file, line)
    /\ UNCHANGED <<now, ui_queue>>
    /\ UNCHANGED appVars
    /\ UNCHANGED workerVars

AppendLine == AppendLineUpTo(MaxLines)

----------------------------------------------------------------------------
(* LiveMonitorWorker.run, one action per step of the thread *)

\* mutant: the newest callback is run first
schedule_update_first(queue, w, s) == <<[from |-> w, stats |-> s]>> \o queue

\* schedule_update_stats, called on the worker thread: self.after(0, update_stats, stats).
\* The callbacks run later on the main thread, oldest first.
schedule_update_stats(queue, w, s) == Append(queue, [from |-> w, stats |-> s])

\* mutant: the return after reporting OSError is missing
OpenNoReturn(w) ==
    /\ pc[w] = "Opening"
    /\ \E ok \in BOOLEAN :
         IF ok
         THEN /\ fopen' = [fopen EXCEPT ![w] = TRUE]
              /\ hist' = [hist EXCEPT ![w].open_len = Len(file)]
              /\ UNCHANGED ui_queue
         ELSE /\ ui_queue' = schedule_update_stats(ui_queue, w, ErrorStats)
              /\ hist' = [hist EXCEPT ![w].open_failed = TRUE,
                                      ![w].errors = @ + 1]
              /\ UNCHANGED fopen
    /\ pc' = [pc EXCEPT ![w] = "Seeking"]
    /\ UNCHANGED <<file, now, cfg, pos, last_print, window, stats, appended>>
    /\ UNCHANGED appVars

\* f = open(self.path, ...): the file opens, or OSError is reported and run returns
Open(w) ==
    /\ pc[w] = "Opening"
    /\ \E ok \in BOOLEAN :
         IF ok
         THEN /\ fopen' = [fopen EXCEPT ![w] = TRUE]
              /\ pc' = [pc EXCEPT ![w] = "Seeking"]
              /\ hist' = [hist EXCEPT ![w].open_len = Len(file)]
              /\ UNCHANGED ui_queue
         ELSE /\ ui_queue' = schedule_update_stats(ui_queue, w, ErrorStats)
              /\ pc' = [pc EXCEPT ![w] = "Stopped"]
              /\ hist' = [hist EXCEPT ![w].open_failed = TRUE,
                                      ![w].errors = @ + 1]
              /\ UNCHANGED fopen
    /\ UNCHANGED <<file, now, cfg, pos, last_print, window, stats, appended>>
    /\ UNCHANGED appVars

\* mutant: the file is read from its first line whatever from_start says
SeekNever(w) ==
    /\ pc[w] = "Seeking"
    /\ pos' = [pos EXCEPT ![w] = 0]
    /\ last_print' = [last_print EXCEPT ![w] = now]
    /\ pc' = [pc EXCEPT ![w] = "Loop"]
    /\ hist' = [hist EXCEPT ![w].entered = now]
    /\ UNCHANGED <<file, now, cfg, fopen, window, stats, appended, ui_queue>>
    /\ UNCHANGED appVars

\* if not self.from_start: f.seek(0, os.SEEK_END);  last_print = time.time()
Seek(w) ==
    /\ pc[w] = "Seeking"
    /\ pos' = [pos EXCEPT ![w] = IF cfg[w].from_start THEN 0 ELSE Len(file)]
    /\ last_print' = [last_print EXCEPT ![w] = now]
    /\ pc' = [pc EXCEPT ![w] = "Loop"]
    /\ hist' = [hist EXCEPT ![w].entered = now]
    /\ UNCHANGED <<file, now, cfg, fopen, window, stats, appended, ui_queue>>
    /\ UNCHANGED appVars

\* while not self.stop_event.is_set():
LoopTest(w) ==
    /\ pc[w] = "Loop"
    /\ pc' = [pc EXCEPT ![w] = IF stop_set[w] THEN "Closing" ELSE "Body"]
    /\ UNCHANGED <<file, now, cfg, fopen, pos, last_print, window, stats, appended, hist,
                   ui_queue>>
    /\ UNCHANGED appVars

\* mutant: a report is made on every pass of the loop
report_always(now_ts, last, refresh_secs) == TRUE

\* if now_ts - last_print >= self.refresh_secs
report_due(now_ts, last, refresh_secs) == now_ts - last >= refresh_secs

\* One pass of the loop body.  line = f.readline(): the read can fail with OSError,
\* which nothing in run catches; else sleep when there is no line, or parse the
\* line and add the event, and a ValueError out of parse_log_line is caught
\* nowhere either.  An uncaught exception ends the thread (run's locals are gone,
\* f.close() was never called).  Then now_ts = time.time() and, when
\* refresh_secs have passed since last_print, the statistics are computed and
\* handed over.
LoopBody(w) ==
    /\ pc[w] = "Body"
    /\ \E read_ok \in BOOLEAN :
         LET got == read_ok /\ pos[w] < Len(file)
             ev == IF got THEN parse_log_line(file[pos[w] + 1]) ELSE None
             fault == IF ~read_ok THEN "OSError"
                      ELSE IF ev = ValueError THEN "ValueError" ELSE "none"
             win == IF ev \in {None, ValueError} THEN window[w]
                    ELSE add_event(window[w], ev, cfg[w].window_minutes)
             due == report_due(now, last_print[w], cfg[w].refresh_secs)
             s == compute_stats_from_window(win)
         IN  /\ pos' = [pos EXCEPT ![w] = IF fault # "none" THEN 0
                                           ELSE IF got THEN @ + 1 ELSE @]
             /\ window' = [window EXCEPT ![w] = win]
             /\ appended' = [appended EXCEPT ![w] =
                               IF ev \in {None, ValueError} THEN @ ELSE Append(@, ev)]
             /\ IF fault # "none"
                THEN /\ pc' = [pc EXCEPT ![w] = "Crashed"]
                     /\ hist' = [hist EXCEPT
                                   ![w].read = TRUE,
                                   ![w].parsed = IF got THEN Append(@, pos[w] + 1) ELSE @,
                                   ![w].fault = fault,
                                   ![w].reads_after_stop = IF stop_set[w] THEN @ + 1 ELSE @]
                     /\ last_print' = [last_print EXCEPT ![w] = 0]
                     /\ UNCHANGED ui_queue
                ELSE /\ pc' = [pc EXCEPT ![w] = "Loop"]
                     /\ last_print' = [last_print EXCEPT ![w] = IF due THEN now ELSE @]
                     /\ ui_queue' = IF due /\ s # None
                                    THEN schedule_update_stats(ui_queue, w, s)
                                    ELSE ui_queue
                     /\ hist' = [hist EXCEPT
                                   ![w].read = TRUE,
                                   ![w].parsed = IF got THEN Append(@, pos[w] + 1) ELSE @,
                                   ![w].reads_after_stop = IF stop_set[w] THEN @ + 1 ELSE @,
                                   ![w].snaps = IF due /\ s # None THEN @ + 1 ELSE @,
                                   ![w].emitted =
                                       IF due /\ s # None
                                       THEN Append(@, [at |-> now, stats |-> s])
                                       ELSE @,
                                   ![w].snaps_after_stop =
                                       IF due /\ s # None /\ stop_set[w] THEN @ + 1 ELSE @]
    /\ UNCHANGED <<file, now, cfg, fopen, stats>>
    /\ UNCHANGED appVars

\* f.close(), and run returns: its locals (the position of f, last_print) are gone
Close(w) ==
    /\ pc[w] = "Closing"
    /\ fopen' = [fopen EXCEPT ![w] = FALSE]
    /\ pc' = [pc EXCEPT ![w] = "Stopped"]
    /\ pos' = [pos EXCEPT ![w] = 0]
    /\ last_print' = [last_print EXCEPT ![w] = 0]
    /\ UNCHANGED <<file, now, cfg, window, stats, appended, hist, ui_queue>>
    /\ UNCHANGED appVars

----------------------------------------------------------------------------
(* LootMonitorApp: the handlers that run on the main thread *)

\* mutant: the return after "Monitor is already running." is missing
StartMonitorNoReturn(c) ==
    /\ main_pc = "idle"
    /\ created < MaxWorkers
    /\ notice' = IF worker # NoWorker THEN "already_running" ELSE notice
    /\ ui' = ResetUi
    /\ created' = created + 1
    /\ stop_event' = created + 1
    /\ stop_set' = [stop_set EXCEPT ![created + 1] = FALSE]
    /\ worker' = created + 1
    /\ cfg' = [cfg EXCEPT ![created + 1] = c]
    /\ pc' = [pc EXCEPT ![created + 1] = "Opening"]
    /\ UNCHANGED <<file, now, fopen, pos, last_print, window, stats, appended, hist,
                   ui_queue, main_pc, join_start>>

\* start_monitor with a path in the entry and the settings c
StartMonitor(c) ==
    /\ main_pc = "idle"
    /\ IF worker # NoWorker
       THEN /\ notice' = "already_running"
            /\ UNCHANGED <<worker, stop_event, created, ui, stop_set, pc, cfg>>
       ELSE /\ created < MaxWorkers
            /\ ui' = ResetUi
            /\ created' = created + 1
            /\ stop_event' = created + 1
            /\ stop_set' = [stop_set EXCEPT ![created + 1] = FALSE]
            /\ worker' = created + 1
            /\ cfg' = [cfg EXCEPT ![created + 1] = c]
            /\ pc' = [pc EXCEPT ![created + 1] = "Opening"]
            /\ UNCHANGED notice
    /\ UNCHANGED <<file, now, fopen, pos, last_print, window, stats, appended, hist,
                   ui_queue, main_pc, join_start>>

\* mutant: stop_monitor joins the worker without setting its stop event
stop_monitor_no_signal ==
    IF worker # NoWorker
    THEN /\ main_pc' = "join"
         /\ join_start' = now
         /\ UNCHANGED stop_set
    ELSE UNCHANGED <<stop_set, main_pc, join_start>>

\* the part of stop_monitor up to worker.join(timeout=1.0)
stop_monitor ==
    IF worker # NoWorker
    THEN /\ stop_set' = [stop_set EXCEPT ![stop_event] = TRUE]
         /\ main_pc' = "join"
         /\ join_start' = now
    ELSE UNCHANGED <<stop_set, main_pc, join_start>>

\* mutant: stop_monitor wipes the display as start_monitor does
StopMonitorResets ==
    /\ main_pc = "idle"
    /\ stop_monitor
    /\ ui' = ResetUi
    /\ UNCHANGED <<file, now, ui_queue, worker, stop_event, created, notice>>
    /\ UNCHANGED workerVars

StopMonitor ==
    /\ main_pc = "idle"
    /\ stop_monitor
    /\ UNCHANGED <<file, now, ui_queue, worker, stop_event, created, ui, notice>>
    /\ UNCHANGED workerVars

\* worker.join returns because the thread has ended; then self.worker = None
JoinReturn ==
    /\ main_pc = "join"
    /\ ~Alive(worker)
    /\ worker' = NoWorker
    /\ main_pc' = "idle"
    /\ UNCHANGED <<file, now, ui_queue, stop_event, created, ui, notice, join_start, stop_set>>
    /\ UNCHANGED workerVars

\* worker.join returns because the timeout has passed; then self.worker = None
JoinTimeout ==
    /\ main_pc = "join"
    /\ Alive(worker)
    /\ now - join_start >= JoinTimeoutSecs
    /\ worker' = NoWorker
    /\ main_pc' = "idle"
    /\ UNCHANGED <<file, now, ui_queue, stop_event, created, ui, notice, join_start, stop_set>>
    /\ UNCHANGED workerVars

\* update_stats, run by the event loop for the oldest scheduled callback
UpdateStats ==
    /\ main_pc = "idle"
    /\ ui_queue # <<>>
    /\ ui_queue' = Tail(ui_queue)
    /\ IF Head(ui_queue).stats = ErrorStats
       THEN /\ notice' = "error"
            /\ stop_monitor
            /\ UNCHANGED <<ui, hist>>
       ELSE /\ ui' = Head(ui_queue).stats
            /\ hist' = [hist EXCEPT ![Head(ui_queue).from].delivered = @ + 1]
            /\ UNCHANGED <<notice, stop_set, main_pc, join_start>>
    /\ UNCHANGED <<file, now, worker, stop_event, created>>
    /\ UNCHANGED <<pc, cfg, fopen, pos, last_print, window, stats, appended>>

----------------------------------------------------------------------------
(* The running program *)

Next ==
    \/ Tick
    \/ AppendLine
    \/ \E w \in Workers : Open(w)
    \/ \E w \in Workers : Seek(w)
    \/ \E w \in Workers : LoopTest(w)
    \/ \E w \in Workers : LoopBody(w)
    \/ \E w \in Workers : Close(w)
    \/ \E c \in Configs : StartMonitor(c)
    \/ StopMonitor
    \/ JoinReturn
    \/ JoinTimeout
    \/ UpdateStats

Spec == Init /\ [][Next]_vars

----------------------------------------------------------------------------
(* One session: start_monitor is accepted once, and the log grows to
   MaxSessionLines lines, before the session starts or while it runs, on a clock
   read up to MaxSessionClock *)

TickSession == TickUpTo(MaxSessionClock)

AppendLineSession == AppendLineUpTo(MaxSessionLines)

\* start_monitor, called before any session or while the session runs
StartSession(c) ==
    /\ created = 0 \/ worker # NoWorker
    /\ StartMonitor(c)

NextSession ==
    \/ TickSession
    \/ AppendLineSession
    \/ Open(1)
    \/ Seek(1)
    \/ LoopTest(1)
    \/ LoopBody(1)
    \/ Close(1)
    \/ \E c \in Configs : StartSession(c)
    \/ StopMonitor
    \/ JoinReturn
    \/ JoinTimeout
    \/ UpdateStats

SpecSession == Init /\ [][NextSession]_vars

\* time passes, and worker.join(timeout=1.0) returns once it can; nothing is
\* assumed of the worker thread, which may be held up for any length of time
FairSession ==
    /\ SpecSession
    /\ WF_vars(TickSession)
    /\ WF_vars(JoinReturn)
    /\ WF_vars(JoinTimeout)

----------------------------------------------------------------------------
(* add_event on its own: a constructed worker whose thread is not started is
   handed events in any order *)

T100000 == Timestamp(2025, 11, 24, 10, 0, 0)

WindowTimes == {T100000, T100000 + 60, T100000 + 360}
WindowEvents == {LootEvent(t, 1, Yang) : t \in WindowTimes}
WindowSpecMinutes == {0, 5}

\* the state after LiveMonitorWorker.__init__ for worker 1 with settings c, once
\* the events evs have been added to it
Constructed(c, evs, win) ==
    /\ file = <<>>
    /\ now = 0
    /\ pc = [w \in Workers |-> IF w = 1 THEN "New" ELSE "Unborn"]
    /\ cfg = [w \in Workers |-> IF w = 1 THEN c ELSE Config(60, 1, FALSE)]
    /\ fopen = [w \in Workers |-> FALSE]
    /\ pos = [w \in Workers |-> 0]
    /\ last_print = [w \in Workers |-> 0]
    /\ window = [w \in Workers |-> IF w = 1 THEN win ELSE <<>>]
    /\ stats = [w \in Workers |-> None]
    /\ stop_set = [e \in 0..MaxWorkers |-> FALSE]
    /\ worker = NoWorker
    /\ stop_event = 0
    /\ created = 1
    /\ ui_queue = <<>>
    /\ ui = ResetUi
    /\ notice = "none"
    /\ main_pc = "idle"
    /\ join_start = 0
    /\ appended = [w \in Workers |-> IF w = 1 THEN evs ELSE <<>>]
    /\ hist = [w \in Workers |-> NoHist]

InitWindow == \E wm \in WindowSpecMinutes : Constructed(Config(wm, 1, FALSE), <<>>, <<>>)

AddEvent(w, ev) ==
    /\ pc[w] = "New"
    /\ Len(appended[w]) < MaxAppends
    /\ window' = [window EXCEPT ![w] = add_event(@, ev, cfg[w].window_minutes)]
    /\ appended' = [appended EXCEPT ![w] = Append(@, ev)]
    /\ UNCHANGED <<file, now, pc, cfg, fopen, pos, last_print, stats, hist, ui_queue>>
    /\ UNCHANGED appVars

NextWindow == \E ev \in WindowEvents : AddEvent(1, ev)

SpecWindow == InitWindow /\ [][NextWindow]_vars

NonDecreasing(evs) == \A i \in 1..Len(evs) - 1 : evs[i].ts <= evs[i + 1].ts

\* number of events add_event has dropped from worker w's window
Evicted(w) == Len(appended[w]) - Len(window[w])

\* the cutoff of the most recent add_event of worker w
LatestCutoff(w) ==
    appended[w][Len(appended[w])].ts - 60 * cfg[w].window_minutes

\* the window is what is left of the appended events after dropping the oldest
WindowIsSuffix(w) ==
    /\ Evicted(w) >= 0
    /\ window[w] = SubSeq(appended[w], Evicted(w) + 1, Len(appended[w]))

C1_State ==
    \A w \in Workers :
        (appended[w] # <<>> /\ NonDecreasing(appended[w])) =>
            /\ WindowIsSuffix(w)
            /\ \A i \in 1..Len(window[w]) : window[w][i].ts >= LatestCutoff(w)
            /\ \A i \in 1..Len(appended[w]) :
                  appended[w][i].ts = LatestCutoff(w) => i > Evicted(w)

C1_Step ==
    \A w \in Workers :
        NonDecreasing(appended'[w]) =>
            /\ Evicted(w)' >= Evicted(w)
            /\ SubSeq(appended'[w], 1, Len(appended[w])) = appended[w]

\* C1: with non-decreasing timestamps every event in the window is no older than
\* the latest appended event minus the window length, an event exactly that old
\* is kept, and the events dropped so far stay dropped: the window is always the
\* appended events minus a prefix that only grows.
C1_WindowBound == []C1_State /\ [][C1_Step]_vars

C1_Witness ==
    /\ cfg[1].window_minutes = 5
    /\ appended[1] = <<LootEvent(T100000, 1, Yang), LootEvent(T100000 + 60, 1, Yang),
                       LootEvent(T100000 + 360, 1, Yang)>>
    /\ window[1] = <<LootEvent(T100000 + 60, 1, Yang), LootEvent(T100000 + 360, 1, Yang)>>

\* the appended events kept in the window are exactly those at or after the cutoff
ExactEviction(w) ==
    /\ WindowIsSuffix(w)
    /\ \A i \in 1..Len(appended[w]) :
          (i > Evicted(w)) <=> (appended[w][i].ts >= LatestCutoff(w))

\* C2 as stated: eviction is exact whatever order the timestamps arrive in.
C2_ExactAnyOrder ==
    \A w \in Workers : appended[w] # <<>> => ExactEviction(w)

\* C2, amended: eviction is exact after any sequence of appends whose timestamps
\* are non-decreasing: the window holds exactly the appended events whose
\* timestamp is at or after the latest timestamp minus the window length.
C2_ExactNonDecreasing ==
    \A w \in Workers :
        (appended[w] # <<>> /\ NonDecreasing(appended[w])) => ExactEviction(w)

C2_Witness ==
    /\ cfg[1].window_minutes = 0
    /\ appended[1] = <<LootEvent(T100000, 1, Yang), LootEvent(T100000, 1, Yang),
                       LootEvent(T100000 + 60, 1, Yang), LootEvent(T100000 + 60, 1, Yang)>>
    /\ window[1] = <<LootEvent(T100000 + 60, 1, Yang), LootEvent(T100000 + 60, 1, Yang)>>

----------------------------------------------------------------------------
(* compute_stats_from_window on its own: a constructed worker whose window was
   filled by add_event is asked for its statistics *)

ItemA == <<"A">>
ItemB == <<"B">>
ItemC == <<"C">>

\* events of a farming session, and events of three items with equal and unequal totals
RateEvents ==
    {LootEvent(t, q, i) : t \in {T100000, T100000 + 10, T100000 + 1800},
                          q \in {5, 100}, i \in {Yang, IronOre}}
OrderEvents ==
    {LootEvent(t, q, i) : t \in {T100000, T100000 + 10},
                          q \in {30, 50}, i \in {ItemA, ItemB, ItemC}}

RECURSIVE AddAll(_, _, _)
AddAll(win, evs, window_minutes) ==
    IF evs = <<>> THEN win
    ELSE AddAll(add_event(win, Head(evs), window_minutes), Tail(evs), window_minutes)

InitStats ==
    \E pool \in {RateEvents, OrderEvents} :
        \E evs \in SeqsUpTo(pool, 0, MaxWindow) :
            Constructed(Config(60, 1, FALSE), evs, AddAll(<<>>, evs, 60))

\* mutant: the events are taken out of the deque instead of being copied
ComputeStatsDraining(w) ==
    /\ pc[w] = "New"
    /\ hist[w].computes < MaxComputes
    /\ stats' = [stats EXCEPT ![w] = compute_stats_from_window(window[w])]
    /\ window' = [window EXCEPT ![w] = <<>>]
    /\ hist' = [hist EXCEPT ![w].computes = @ + 1]
    /\ UNCHANGED <<file, now, pc, cfg, fopen, pos, last_print, appended, ui_queue>>
    /\ UNCHANGED appVars

\* stats = self.compute_stats_from_window(), called on a worker that is not running
ComputeStats(w) ==
    /\ pc[w] = "New"
    /\ hist[w].computes < MaxComputes
    /\ stats' = [stats EXCEPT ![w] = compute_stats_from_window(window[w])]
    /\ hist' = [hist EXCEPT ![w].computes = @ + 1]
    /\ UNCHANGED <<file, now, pc, cfg, fopen, pos, last_print, window, appended, ui_queue>>
    /\ UNCHANGED appVars

NextStats == ComputeStats(1)

SpecStats == InitStats /\ [][NextStats]_vars

\* the sum of quantity over the events of win at the indices in S
RECURSIVE QuantityAt(_, _)
QuantityAt(win, S) ==
    IF S = {} THEN 0
    ELSE LET i == CHOOSE j \in S : TRUE
         IN  win[i].quantity + QuantityAt(win, S \ {i})

IndicesOf(win, name) == {i \in 1..Len(win) : win[i].item = name}

ItemNames(win) == {win[i].item : i \in 1..Len(win)} \ {Yang}

\* C3: the snapshot of a non-empty window has the currency total of the "Yang"
\* events, one item entry per distinct other name carrying that name's total
\* quantity, no entry for the currency, and the first and last timestamps of the
\* window as its start and end.
C3_Totals ==
    \A w \in Workers :
        stats[w] # None =>
            LET win == window[w]
                items == stats[w].items
            IN  /\ stats[w].total_yang = QuantityAt(win, IndicesOf(win, Yang))
                /\ {items[i][1] : i \in 1..Len(items)} = ItemNames(win)
                /\ Len(items) = Cardinality(ItemNames(win))
                /\ \A i \in 1..Len(items) :
                      items[i][2] = QuantityAt(win, IndicesOf(win, items[i][1]))
                /\ stats[w].start = win[1].ts
                /\ stats[w].end = win[Len(win)].ts

C3_Witness ==
    /\ stats[1] # None
    /\ window[1] = <<LootEvent(T100000, 5, IronOre), LootEvent(T100000 + 10, 100, Yang),
                     LootEvent(T100000 + 1800, 100, IronOre)>>
    /\ stats[1].total_yang = 100
    /\ stats[1].items = << <<IronOre, 105, 210>> >>

\* r is a nearest integer to n / d
Nearest(r, n, d) == 2 * (r * d - n) <= d /\ 2 * (n - r * d) <= d

\* the snapshot's elapsed seconds: hours * 3600
ElapsedSeconds(s) == s.hours.num

EndToEndWindow ==
    <<LootEvent(T100000, 5, Yang), LootEvent(T100000 + 10, 100, IronOre),
      LootEvent(T100000 + 1800, 5, Yang)>>

\* C4: the per-hour and per-minute currency rates and every item's per-hour rate
\* are the totals scaled by 3600 (or 60) over the elapsed seconds, rounded to a
\* nearest integer; the three events of the end-to-end scenario give total 10,
\* 10:00:00 to 10:30:00, 1800 s, 20 per hour and items [(Iron Ore, 100, 200)].
C4_Rates ==
    \A w \in Workers :
        stats[w] # None =>
            LET s == stats[w]
                e == ElapsedSeconds(s)
            IN  /\ s.hours = Fraction(e, 3600)
                /\ s.minutes = Fraction(e, 60)
                /\ Nearest(s.yang_per_hour, s.total_yang * 3600, e)
                /\ Nearest(s.yang_per_minute, s.total_yang * 60, e)
                /\ \A i \in 1..Len(s.items) :
                      Nearest(s.items[i][3], s.items[i][2] * 3600, e)
                /\ window[w] = EndToEndWindow =>
                      /\ s.total_yang = 10
                      /\ s.start = T100000
                      /\ s.end = T100000 + 1800
                      /\ e = 1800
                      /\ s.yang_per_hour = 20
                      /\ s.items = << <<IronOre, 100, 200>> >>

C4_Witness ==
    /\ stats[1] # None
    /\ window[1] = EndToEndWindow

\* C5: the elapsed seconds are the larger of end - start and 1, so at least 1; a
\* window whose events share one timestamp has currency rates of total * 3600 per
\* hour and total * 60 per minute.
C5_RateFloor ==
    \A w \in Workers :
        stats[w] # None =>
            LET s == stats[w]
                win == window[w]
            IN  /\ ElapsedSeconds(s) >= 1
                /\ ElapsedSeconds(s) =
                      IF s.end - s.start >= 1 THEN s.end - s.start ELSE 1
                /\ (\A i \in 1..Len(win) : win[i].ts = win[1].ts) =>
                      /\ s.yang_per_hour = s.total_yang * 3600
                      /\ s.yang_per_minute = s.total_yang * 60

C5_Witness ==
    /\ stats[1] # None
    /\ window[1] = <<LootEvent(T100000, 5, Yang), LootEvent(T100000, 100, Yang)>>
    /\ stats[1].yang_per_hour = 378000
    /\ stats[1].yang_per_minute = 6300

\* the index at which an item name first occurs in win
FirstSeen(win, name) ==
    CHOOSE i \in IndicesOf(win, name) : \A j \in IndicesOf(win, name) : i <= j

\* C6: the items of a snapshot are in descending order of total quantity, and
\* items of equal total are in the order in which their names first occur in the
\* window.
C6_ItemOrder ==
    \A w \in Workers :
        stats[w] # None =>
            LET items == stats[w].items
            IN  \A i, j \in 1..Len(items) :
                    i < j =>
                        /\ items[i][2] >= items[j][2]
                        /\ items[i][2] = items[j][2] =>
                              FirstSeen(window[w], items[i][1])
                                  < FirstSeen(window[w], items[j][1])

C6_Witness ==
    /\ window[1] = <<LootEvent(T100000, 30, ItemA), LootEvent(T100000, 50, ItemB),
                     LootEvent(T100000 + 10, 50, ItemC)>>
    /\ stats[1] # None
    /\ stats[1].items = << <<ItemB, 50, 18000>>, <<ItemC, 50, 18000>>, <<ItemA, 30, 10800>> >>

\* compute_stats_from_window has been called on worker w
Computed(w) == hist'[w].computes = hist[w].computes + 1

C15_Step ==
    \A w \in Workers :
        Computed(w) =>
            /\ window' = window
            /\ appended' = appended
            /\ hist[w].computes > 0 => stats'[w] = stats[w]

----------------------------------------------------------------------------
(* parse_log_line on its own: one line, and one call *)

\* date, time and quantity texts, each with the value it stands for (days since
\* 1 January 2000, seconds since midnight, the number)
ParseDates ==
    { [str |-> Date241125, days |-> 9459],
      [str |-> Group("2", "9", "/", "0", "2", "2", "4"), days |-> 8825],
      [str |-> Group("0", "1", "/", "0", "1", "0", "0"), days |-> 0] }

ParseTimes ==
    { [str |-> Group("1", "0", ":", "0", "0", "0", "0"), secs |-> 36000],
      [str |-> Group("2", "3", ":", "5", "9", "5", "9"), secs |-> 86399],
      [str |-> Group("0", "0", ":", "0", "0", "0", "0"), secs |-> 0] }

ParseQtys ==
    { [str |-> <<"5">>, value |-> 5],
      [str |-> <<"1", "0", "0">>, value |-> 100],
      [str |-> <<"0", "0", "7">>, value |-> 7] }

DrX == <<"D", "r", ".", " ", "X">>
AdotB == <<"A", ".", "B">>

ParseItems == {Yang, IronOre, DrX, AdotB}

GrammarLines ==
    {TextLine(d.str, t.str, q.str, i) :
        d \in ParseDates, t \in ParseTimes, q \in ParseQtys, i \in ParseItems}

\* lines that hold no text of the form of LOG_LINE_RE: no quantity, no item, no
\* period at the end, other content, the empty line
OtherLines ==
    { TextLine(Date241125, Group("1", "0", ":", "0", "0", "0", "0"), <<>>, Yang),
      TextLine(Date241125, Group("1", "0", ":", "0", "0", "0", "0"), <<"5">>, <<>>),
      SubSeq(TextLine(Date241125, Group("1", "0", ":", "0", "0", "0", "0"), <<"5">>, Yang),
             1, 41),
      <<"h", "i">>,
      <<>> }

InitParse ==
    /\ \E line \in GrammarLines \cup OtherLines : file = <<line>>
    /\ now = 0
    /\ pc = [w \in Workers |-> IF w = 1 THEN "New" ELSE "Unborn"]
    /\ cfg = [w \in Workers |-> Config(60, 1, FALSE)]
    /\ fopen = [w \in Workers |-> FALSE]
    /\ pos = [w \in Workers |-> 0]
    /\ last_print = [w \in Workers |-> 0]
    /\ window = [w \in Workers |-> <<>>]
    /\ stats = [w \in Workers |-> None]
    /\ stop_set = [e \in 0..MaxWorkers |-> FALSE]
    /\ worker = NoWorker
    /\ stop_event = 0
    /\ created = 1
    /\ ui_queue = <<>>
    /\ ui = ResetUi
    /\ notice = "none"
    /\ main_pc = "idle"
    /\ join_start = 0
    /\ appended = [w \in Workers |-> <<>>]
    /\ hist = [w \in Workers |-> NoHist]

\* ev = parse_log_line(line), called on the line of the file
ParseLine(w) ==
    /\ pc[w] = "New"
    /\ hist[w].result = NotCalled
    /\ hist' = [hist EXCEPT ![w].result = parse_log_line(file[1])]
    /\ UNCHANGED <<file, now, pc, cfg, fopen, pos, last_print, window, stats, appended,
                   ui_queue>>
    /\ UNCHANGED appVars

NextParse == ParseLine(1)

SpecParse == InitParse /\ [][NextParse]_vars

\* C18 as stated: for a line made of a date, a time, a quantity and an item text
\* (which may hold periods and spaces) parse_log_line returns the event with the
\* timestamp of that date and time, the value of the quantity and exactly that
\* item text; for a line not of that form it returns None.
C18_RoundTrip ==
    hist[1].result # NotCalled =>
        /\ \A d \in ParseDates, t \in ParseTimes, q \in ParseQtys, i \in ParseItems :
              file[1] = TextLine(d.str, t.str, q.str, i) =>
                  hist[1].result = LootEvent(86400 * d.days + t.secs, q.value, i)
        /\ file[1] \in OtherLines => hist[1].result = None

----------------------------------------------------------------------------
(* The running program: open failure, faults, sessions and cancellation *)

C7_State ==
    \A w \in Workers :
        hist[w].open_failed =>
            /\ hist[w].errors = 1
            /\ hist[w].snaps = 0
            /\ ~hist[w].read
            /\ ~fopen[w]
            /\ pc[w] = "Stopped"

\* update_stats takes an error notification off the queue
HandlesError ==
    /\ main_pc = "idle"
    /\ ui_queue # <<>>
    /\ Head(ui_queue).stats = ErrorStats
    /\ ui_queue' = Tail(ui_queue)

C7_Step ==
    /\ HandlesError => \/ main_pc' = "idle" /\ worker' = NoWorker
                       \/ main_pc' = "join" /\ stop_set'[stop_event]
    /\ (main_pc = "join" /\ main_pc' = "idle") => worker' = NoWorker

\* C7: a worker whose open failed has handed over exactly one error and no
\* snapshot, has read nothing, holds no file and is Stopped; and when update_stats
\* has handled the error (at once, or when the join it entered returns) the
\* application has no worker: the session is idle.
C7_OpenFailure == []C7_State /\ [][C7_Step]_vars

C7_Witness ==
    /\ hist[1].open_failed
    /\ notice = "error"
    /\ ui_queue = <<>>
    /\ main_pc = "idle"
    /\ worker = NoWorker

\* C8 as stated: no line read from the file ends the worker with a fault.
C8_NoLineEndsTailer ==
    \A w \in Workers : ~(pc[w] = "Crashed" /\ hist[w].fault = "ValueError")

\* C9 as stated: at most one worker thread is alive at any moment.
C9_AtMostOneTailer == Cardinality({w \in Workers : Alive(w)}) <= 1

\* C10 as stated: once its stop event is set, a worker that opened the file ends
\* in Stopped with the file closed, after at most one more read and at most one
\* more snapshot.
C10_CancelStops ==
    \A w \in Workers :
        (stop_set[w] /\ ~hist[w].open_failed) =>
            /\ hist[w].reads_after_stop <= 1
            /\ hist[w].snaps_after_stop <= 1
            /\ pc[w] \in {"Stopped", "Crashed"} => (pc[w] = "Stopped" /\ ~fopen[w])

----------------------------------------------------------------------------
(* One session: delivery of snapshots *)

\* the snapshots of worker w that wait in the event loop, oldest first
Pending(w) ==
    LET waiting == SelectSeq(ui_queue, LAMBDA m : m.from = w /\ m.stats # ErrorStats)
    IN  [i \in 1..Len(waiting) |-> waiting[i].stats]

\* the snapshots worker w has emitted, oldest first
Emitted(w) == [i \in 1..Len(hist[w].emitted) |-> hist[w].emitted[i].stats]

C11_State ==
    \A w \in Workers :
        /\ hist[w].delivered <= Len(Emitted(w))
        /\ Pending(w) = SubSeq(Emitted(w), hist[w].delivered + 1, Len(Emitted(w)))
        /\ NonDecreasing(appended[w]) =>
              \A i, j \in 1..Len(Emitted(w)) :
                  i < j => Emitted(w)[i].end <= Emitted(w)[j].end

C11_Step ==
    \A w \in Workers :
        hist'[w].delivered # hist[w].delivered =>
            /\ hist'[w].delivered = hist[w].delivered + 1
            /\ ui' = Emitted(w)[hist[w].delivered + 1]

\* C11: the snapshots of a session are shown one at a time in the order the worker
\* emitted them (those still waiting are exactly the emitted ones not yet shown,
\* in order), and when the events read have non-decreasing timestamps the end of
\* window of every emitted snapshot is at least that of each one emitted before.
C11_DeliveryOrder == []C11_State /\ [][C11_Step]_vars

C11_Witness ==
    /\ hist[1].delivered = 2
    /\ Emitted(1)[1].end < Emitted(1)[2].end
    /\ ui = Emitted(1)[2]

C12_State ==
    /\ compute_stats_from_window(<<>>) = None
    /\ \A w \in Workers :
          window[w] = <<>> =>
              /\ hist[w].snaps = 0
              /\ Emitted(w) = <<>>
              /\ Pending(w) = <<>>
              /\ hist[w].delivered = 0
    /\ (\A w \in Workers : window[w] = <<>>) => ui = ResetUi

\* a pass of worker w's loop body that ends with the window empty
EmptyPass(w) == pc[w] = "Body" /\ pc'[w] # "Body" /\ window'[w] = <<>>

C12_Step ==
    \A w \in Workers : EmptyPass(w) => (ui_queue' = ui_queue /\ ui' = ui)

\* C12: compute_stats_from_window gives no snapshot for an empty window; a worker
\* whose window is empty has emitted nothing, has nothing waiting and has had
\* nothing shown, a pass of its loop that leaves the window empty hands nothing
\* over and leaves the display alone, and while no worker has accepted an event
\* the display is as start_monitor reset it.
C12_EmptyWindowSilent == []C12_State /\ [][C12_Step]_vars

C12_Witness ==
    /\ pc[1] = "Loop"
    /\ window[1] = <<>>
    /\ pos[1] = 2
    /\ hist[1].entered = 0
    /\ last_print[1] = 2
    /\ ui_queue = <<>>
    /\ ui = ResetUi

\* C16: the clock readings at which a worker hands over two successive snapshots
\* are at least refresh_secs apart, and the first snapshot is handed over no
\* earlier than refresh_secs after the worker set last_print before its loop,
\* whatever number of lines it reads in between.
C16_OnePerInterval ==
    \A w \in Workers :
        LET e == hist[w].emitted
        IN  /\ \A i \in 1..Len(e) - 1 : e[i + 1].at - e[i].at >= cfg[w].refresh_secs
            /\ e # <<>> => e[1].at - hist[w].entered >= cfg[w].refresh_secs

C16_Witness ==
    /\ hist[1].entered = 0
    /\ pos[1] = 2
    /\ Len(hist[1].emitted) = 2
    /\ hist[1].emitted[1].at = 1
    /\ Len(appended[1]) = 2
    /\ hist[1].emitted[1].stats.end = appended[1][2].ts
    /\ hist[1].emitted[2].at = 2

\* the events among what parse_log_line returns for the lines at the places ps
RECURSIVE EventsOf(_)
EventsOf(ps) ==
    IF ps = <<>> THEN <<>>
    ELSE LET ev == parse_log_line(file[Head(ps)])
         IN  (IF ev \in {None, ValueError} THEN <<>> ELSE <<ev>>) \o EventsOf(Tail(ps))

\* C19: a worker that does not read from the start never hands to the parser a
\* line that was in the file when it opened it; a worker that reads from the
\* start hands over the lines of the file from the first on; either hands over
\* consecutive lines, each once and in file order, and the events added to the
\* window are those of the lines handed over, and no others.
C19_WhereReadingStarts ==
    \A w \in Workers :
        LET p == hist[w].parsed
        IN  /\ ~cfg[w].from_start => \A i \in 1..Len(p) : p[i] > hist[w].open_len
            /\ cfg[w].from_start => \A i \in 1..Len(p) : p[i] = i
            /\ \A i \in 1..Len(p) - 1 : p[i + 1] = p[i] + 1
            /\ \A i \in 1..Len(p) : p[i] <= Len(file)
            /\ appended[w] = EventsOf(p)

C19_Witness ==
    /\ ~cfg[1].from_start
    /\ hist[1].open_len = 1
    /\ parse_log_line(file[1]) \notin {None, ValueError}
    /\ hist[1].parsed = <<2>>
    /\ Len(appended[1]) = 1
    /\ hist[1].snaps = 1

\* C17 as stated: after a failed read the worker is still in its loop (or has
\* left it because it was cancelled); no failed read ends the thread.
C17_ReadErrorSkipped ==
    \A w \in Workers : ~(pc[w] = "Crashed" /\ hist[w].fault = "OSError")

----------------------------------------------------------------------------
(* One session: stop_monitor *)

C13_State ==
    main_pc = "join" =>
        /\ worker # NoWorker
        /\ stop_event = worker
        /\ stop_set[worker]
        /\ now - join_start >= JoinTimeoutSecs => ENABLED (JoinReturn \/ JoinTimeout)

C13_Step ==
    /\ (main_pc = "idle" /\ main_pc' = "join") =>
          /\ worker # NoWorker
          /\ stop_set'[worker]
          /\ \A e \in Workers : e # worker => stop_set'[e] = stop_set[e]
    /\ (main_pc = "join" /\ main_pc' = "idle") => worker' = NoWorker
    /\ (worker = NoWorker /\ StopMonitor) => UNCHANGED vars

\* a join that began before the last clock reading of the model
C13_Joining == main_pc = "join" /\ join_start < MaxSessionClock

C13_Idle == main_pc = "idle" /\ worker = NoWorker

\* C13: stop_monitor with a worker sets the stop event of that worker, and of no
\* other, before it joins; once the join timeout has passed the join can return
\* whether or not the thread has ended, every join does return, and it leaves the
\* application with no worker (so that start_monitor is accepted); stop_monitor
\* without a worker changes nothing.
C13_StopTerminates ==
    /\ []C13_State
    /\ [][C13_Step]_vars
    /\ C13_Joining ~> C13_Idle

C13_Witness ==
    /\ C13_Idle
    /\ stop_set[1]
    /\ Alive(1)
    /\ now - join_start = JoinTimeoutSecs

----------------------------------------------------------------------------
(* start_monitor while a worker exists *)

\* start_monitor has shown "Monitor is already running."
Notified == notice' = "already_running" /\ notice # "already_running"

C14_Step ==
    /\ Notified =>
          /\ worker # NoWorker
          /\ UNCHANGED <<file, now, pc, cfg, fopen, pos, last_print, window, stats,
                         stop_set, worker, stop_event, created, ui_queue, ui, main_pc,
                         join_start, appended, hist>>
    /\ created' # created => worker = NoWorker
    /\ \A w \in Workers : (worker = w /\ worker' = w) => cfg'[w] = cfg[w]

\* C14: the step in which start_monitor says that the monitor is already running
\* changes nothing else (no worker is created; settings, window and stop event of
\* the running worker and the display stay as they are); a worker is created only
\* when the application has none, and the settings of the current worker never
\* change.
C14_DoubleStart == [][C14_Step]_vars

C14_Witness ==
    /\ notice = "already_running"
    /\ worker = 1
    /\ created = 1
    /\ Alive(1)
    /\ ~stop_set[1]
    /\ window[1] # <<>>
    /\ ui # ResetUi

----------------------------------------------------------------------------
(* What stop_monitor keeps and start_monitor resets *)

\* start_monitor has created a worker
Started == created' = created + 1

C20_Step ==
    /\ main_pc' # main_pc => ui' = ui
    /\ (ui' = ResetUi /\ ui # ResetUi) => (Started /\ worker = NoWorker)
    /\ Started =>
          /\ ui' = ResetUi
          /\ worker' = created'
          /\ window'[created'] = <<>>
          /\ appended'[created'] = <<>>
          /\ ~stop_set'[created']

\* C20: no step of stop_monitor (setting the event and starting to join, or
\* coming back from the join) changes what is displayed; the display goes back to
\* its reset state only in the step in which start_monitor creates a worker, and
\* that worker starts with an empty window, whatever the windows of the workers
\* before it hold.
C20_StopKeepsDisplay == [][C20_Step]_vars

C20_Witness ==
    /\ created = 2
    /\ worker = 2
    /\ pc[2] = "Opening"
    /\ hist[1].delivered >= 1
    /\ stop_set[1]
    /\ window[1] # <<>>
    /\ window[2] = <<>>
    /\ ui = ResetUi

----------------------------------------------------------------------------
(* One session: what the reporting interval is measured from *)

\* the clock reading of worker w's last emission, or of its setting last_print
\* before the loop when it has emitted nothing
LastEmission(w) ==
    IF hist[w].emitted = <<>> THEN hist[w].entered
    ELSE hist[w].emitted[Len(hist[w].emitted)].at

\* a pass of worker w's loop body that ends with the report check
CheckedPass(w) == pc[w] = "Body" /\ pc'[w] = "Loop"

C21_State ==
    \A w \in Workers :
        pc[w] \in {"Loop", "Body", "Closing"} => last_print[w] = LastEmission(w)

C21_Step ==
    \A w \in Workers :
        (/\ CheckedPass(w)
         /\ now - LastEmission(w) >= cfg[w].refresh_secs
         /\ window'[w] # <<>>) =>
            Len(hist'[w].emitted) = Len(hist[w].emitted) + 1

\* C21 as stated: while a worker is in its loop, the reading it measures the
\* interval from (last_print) is that of its last emission, or of entering the
\* loop when it has emitted nothing, so a check with an empty window does not
\* move it; and every report check made refresh_secs or more after that reading
\* with a window that is not empty emits a snapshot.
C21_IntervalFromEmission == []C21_State /\ [][C21_Step]_vars

----------------------------------------------------------------------------
(* Notifications of a worker that is no longer the application's latest *)

\* update_stats runs for a notification handed over by a worker created before
\* the latest one
StaleHandled ==
    /\ ui_queue # <<>>
    /\ ui_queue' = Tail(ui_queue)
    /\ Head(ui_queue).from < created

C22_Step ==
    StaleHandled =>
        IF Head(ui_queue).stats = ErrorStats
        THEN /\ stop_set'[created] = stop_set[created]
             /\ worker' = worker
             /\ main_pc' = main_pc
        ELSE ui' = ui

\* C22 as stated: once a later worker has been created, a snapshot from an
\* earlier worker is not shown, and an open failure reported by an earlier worker
\* neither sets the stop event of the later worker nor takes the later worker
\* away from the application.
C22_SessionsIsolated == [][C22_Step]_vars

----------------------------------------------------------------------------
(* One session: the window once an event has been accepted *)

\* add_event keeps the event it is given as the last of the window, for windows
\* of up to two events with timestamps in any order and a window length of 0 or
\* 5 minutes
AppendKeeps ==
    \A wm \in WindowSpecMinutes, ev \in WindowEvents :
        \A win \in SeqsUpTo(WindowEvents, 0, 2) :
            LET after == add_event(win, ev, wm)
            IN  after # <<>> /\ after[Len(after)] = ev

C23_State ==
    /\ AppendKeeps
    /\ \A w \in Workers :
          appended[w] # <<>> =>
              /\ window[w] # <<>>
              /\ window[w][Len(window[w])] = appended[w][Len(appended[w])]

C23_Step ==
    \A w \in Workers :
        /\ window'[w] # window[w] => Len(appended'[w]) = Len(appended[w]) + 1
        /\ (/\ CheckedPass(w)
            /\ report_due(now, last_print[w], cfg[w].refresh_secs)
            /\ appended'[w] # <<>>) =>
               Len(hist'[w].emitted) = Len(hist[w].emitted) + 1

\* C23: add_event never drops the event it has just appended, so the window of a
\* worker that has accepted an event is never empty and ends with the event
\* accepted last; the window changes only in a step that accepts an event (never
\* because the clock moves); and every report check that finds refresh_secs
\* passed since last_print, once an event has been accepted, emits a snapshot.
C23_NeverEmptyAgain == []C23_State /\ [][C23_Step]_vars

C23_Witness ==
    /\ now = 2
    /\ Len(appended[1]) = 2
    /\ window[1] = <<appended[1][2]>>
    /\ Len(hist[1].emitted) = 2
    /\ hist[1].emitted[2].stats.start = appended[1][2].ts

====
